---- MODULE Spec2Model ----
(***************************************************************************)
(* Model of the zw streaming pipeline:                                     *)
(*   - stream.Processor.ProcessStream / cleanResponse (pkg/stream)         *)
(*   - renderer.MarkdownRenderer (internal/renderer)                       *)
(*   - cmd.streamingPrinter and cmd.askQuestion (cmd/ask.go)               *)
(*   - ui.RightSpinner and handlers.SpinnerHandler                         *)
(* Texts are sequences of one-rune strings; an SSE line is a sequence of   *)
(* tokens (the six-byte prefix, a blank, the sentinel, junk, a JSON        *)
(* object).                                                                *)
(***************************************************************************)
EXTENDS Integers, Sequences, FiniteSets, TLC

VARIABLES
    input,        \* the lines the reader will deliver, in order
    readFails,    \* TRUE: the reader ends with an error instead of EOF
    pos,          \* number of lines taken from the scanner so far
    response,     \* ProcessStream's strings.Builder
    callbacks,    \* the deltas handed to the callback, in call order
    status,       \* "running" | "done" (nil error) | "error"
    result,       \* text returned by ProcessStream
    doc,          \* the content handed to RenderMarkdown
    rpc,          \* "blocks" | "inline" | "done" | "panic" | "idle"
    scanFrom,     \* index in doc from which the next code block is sought
    out,          \* output of ReplaceAllStringFunc built so far
    boxes,        \* the replacement produced for each matched block
    rendered,     \* value returned by RenderMarkdown
    calls,        \* the earlier calls of RenderMarkdown: content and result
    pc,           \* where the main goroutine is: askQuestion, or "direct"
    inFlush,      \* TRUE while render runs on behalf of flush
    err,          \* the error returned by the function given to WithSpinner
    clock,        \* time.Now(), in ms since the start
    buffer,       \* streamingPrinter.buffer
    lastLines,    \* streamingPrinter.lastLines
    lastUpdate,   \* streamingPrinter.lastUpdate, in ms
    throttle,     \* streamingPrinter.throttle, in ms
    now,          \* the time.Now() taken by the onDelta in progress
    pending,      \* the render in progress: content, lines, cursor-up issued
    frames,       \* every repaint so far, with where its writes landed
    active,       \* RightSpinner.active
    cancelled,    \* RightSpinner.ctx is done
    mu,           \* RightSpinner.mu: "free" | "r" | "w"
    animPc,       \* where the animate goroutine is
    wg,           \* RightSpinner.wg counter
    lastLen,      \* RightSpinner.lastLen
    frameIndex,   \* animate's frameIndex
    cursor,       \* terminal: where the cursor is, "main" | "corner"
    saved,        \* terminal: the position ESC 7 saved
    corner        \* terminal: what the top-right corner shows

streamVars == <<input, readFails, pos, response, callbacks, status, result>>

renderVars == <<doc, rpc, scanFrom, out, boxes, rendered, calls>>

askVars == <<pc, inFlush, err, clock>>

printerVars == <<buffer, lastLines, lastUpdate, throttle, now, pending, frames>>

spinnerVars == <<active, cancelled, mu, animPc, wg, lastLen, frameIndex>>

termVars == <<cursor, saved, corner>>

vars == <<streamVars, renderVars, askVars, printerVars, spinnerVars, termVars>>

\* ------------------------------------------------------------------ bounds
MaxLines == 3
MaxSegments == 2
MaxClock == 120
MaxDraws == 3

\* ------------------------------------------------------------------- runes
NL == "\n"
CR == "\r"
\* the backtick rune
BT == "bt"
SP == " "
Fence == <<BT, BT, BT>>

\* white space as strings.TrimSpace sees it, over the runes of the model
IsSpace(r) == r \in {SP, NL, CR, "\t"}

RECURSIVE Concat(_)
Concat(ss) == IF ss = <<>> THEN <<>> ELSE Head(ss) \o Concat(Tail(ss))

\* ------------------------------------------------------------- SSE lines
Tok(k) == [k |-> k, type |-> "", delta_content |-> <<>>, done |-> FALSE]
Prefix == Tok("data: ")
Blank == Tok(" ")
Sentinel == Tok("[DONE]")
Junk == Tok("junk")
Json(t, d, dn) == [k |-> "json", type |-> t, delta_content |-> d, done |-> dn]

\* line[:6] == "data: "
HasPrefix(line) == Len(line) >= 1 /\ line[1] = Prefix

\* line[6:]
Payload(line) == Tail(line)

RECURSIVE TrimLeftBlank(_)
TrimLeftBlank(d) ==
    IF d # <<>> /\ Head(d) = Blank THEN TrimLeftBlank(Tail(d)) ELSE d

RECURSIVE TrimRightBlank(_)
TrimRightBlank(d) ==
    IF d # <<>> /\ d[Len(d)] = Blank THEN TrimRightBlank(SubSeq(d, 1, Len(d) - 1)) ELSE d

\* json.Unmarshal([]byte(data), &chunk): white space around the value is
\* accepted, anything but one object is an error.
UnmarshalOk(data) ==
    LET core == TrimRightBlank(TrimLeftBlank(data))
    IN  Len(core) = 1 /\ core[1].k = "json"

\* the StreamChunk decoded from data (zero value fields when absent)
Unmarshal(data) == TrimLeftBlank(data)[1]

\* ------------------------------------------------ Processor.cleanResponse
\* the rune pass of cleanResponse: "\r\n" -> "\n", lone "\r" -> "\n"
RECURSIVE NormalizePass(_, _)
NormalizePass(runes, i) ==
    IF i > Len(runes) THEN <<>>
    ELSE IF runes[i] = CR
         THEN IF i + 1 <= Len(runes) /\ runes[i + 1] = NL
              THEN NormalizePass(runes, i + 1)
              ELSE <<NL>> \o NormalizePass(runes, i + 1)
         ELSE <<runes[i]>> \o NormalizePass(runes, i + 1)

FenceCountPassOne(runes, i) == 1

\* fenceCount of the rune pass: every index at which three backticks start
RECURSIVE FenceCountPass(_, _)
FenceCountPass(runes, i) ==
    IF i > Len(runes) THEN 0
    ELSE (IF runes[i] = BT /\ i + 2 <= Len(runes)
             /\ runes[i + 1] = BT /\ runes[i + 2] = BT
          THEN 1 ELSE 0) + FenceCountPass(runes, i + 1)

RECURSIVE TrimLeft(_)
TrimLeft(t) == IF t # <<>> /\ IsSpace(Head(t)) THEN TrimLeft(Tail(t)) ELSE t

RECURSIVE TrimRight(_)
TrimRight(t) ==
    IF t # <<>> /\ IsSpace(t[Len(t)]) THEN TrimRight(SubSeq(t, 1, Len(t) - 1)) ELSE t

TrimSpace(t) == TrimRight(TrimLeft(t))

LimitPassKeepsAll(text, i, newlineCount) == SubSeq(text, i, Len(text))

RECURSIVE LimitPass(_, _, _)
LimitPass(text, i, newlineCount) ==
    IF i > Len(text) THEN <<>>
    ELSE IF text[i] = NL
         THEN (IF newlineCount + 1 <= 3 THEN <<NL>> ELSE <<>>)
              \o LimitPass(text, i + 1, newlineCount + 1)
         ELSE <<text[i]>> \o LimitPass(text, i + 1, 0)

limitNewlines(text) == LimitPass(text, 1, 0)

cleanResponse(text) ==
    IF text = <<>> THEN <<>>
    ELSE LET fenceCount == FenceCountPass(text, 1)
             cleaned == TrimSpace(NormalizePass(text, 1))
         IN  limitNewlines(IF fenceCount % 2 = 1
                           THEN cleaned \o <<NL, BT, BT, BT>>
                           ELSE cleaned)

\* the condition under which a decoded chunk is handed to the callback
EmitsAnyType(chunk) == chunk.delta_content # <<>>

Emits(chunk) == chunk.type = "chat:completion" /\ chunk.delta_content # <<>>

\* data == "[DONE]"
IsSentinelNever(data) == FALSE

IsSentinel(data) == data = <<Sentinel>>

\* chunk.Data.Done
TerminatesOnlyCompletion(chunk) == chunk.done /\ chunk.type = "chat:completion"

Terminates(chunk) == chunk.done

\* the continue statements of the loop: a line without the prefix or with
\* a payload that does not unmarshal leaves the call as it was
AfterSkipFails(st) == "error"

AfterSkip(st) == st

\* line[:6] != "data: ", or json.Unmarshal returned an error
Skipped(line) ==
    \/ ~HasPrefix(line)
    \/ (~IsSentinel(Payload(line)) /\ ~UnmarshalOk(Payload(line)))

Throttle == 80

\* the zero time.Time of a new printer: Sub() from it is never below throttle
ZeroTime == 0 - Throttle

\* strings.Contains(delta, "\n") || now.Sub(p.lastUpdate) >= p.throttle
ShouldRenderStrict(delta, t, last, thr) ==
    (\E i \in 1..Len(delta) : delta[i] = NL) \/ t - last > thr

ShouldRenderOnNewline(delta, t, last, thr) ==
    \E i \in 1..Len(delta) : delta[i] = NL

ShouldRender(delta, t, last, thr) ==
    (\E i \in 1..Len(delta) : delta[i] = NL) \/ t - last >= thr

\* streamingPrinter.onDelta up to the call of render, whose writes are
\* steps of their own (RenderErase, RenderPrint)
onDelta(delta) ==
    /\ buffer' = buffer \o delta
    /\ now' = clock
    /\ pc' = IF ShouldRender(delta, clock, lastUpdate, throttle)
             THEN "render1" ELSE pc
    /\ UNCHANGED <<lastLines, lastUpdate, throttle, pending, frames>>

\* ------------------------------------------------ Processor.ProcessStream
\* one iteration of the for scanner.Scan() loop; with the printer as the
\* callback (pc = "stream") the callback is onDelta
Scan ==
    /\ pc \in {"direct", "stream"}
    /\ status = "running"
    /\ pos < Len(input)
    /\ pos' = pos + 1
    /\ LET line == input[pos + 1]
           data == Payload(line)
           sentinel == HasPrefix(line) /\ IsSentinel(data)
           parsed == HasPrefix(line) /\ ~sentinel /\ UnmarshalOk(data)
           chunk == Unmarshal(data)
           emitted == IF parsed /\ Emits(chunk) THEN chunk.delta_content ELSE <<>>
           ends == sentinel \/ (parsed /\ Terminates(chunk))
       IN  /\ response' = response \o emitted
           /\ callbacks' = IF emitted # <<>> THEN Append(callbacks, emitted)
                           ELSE callbacks
           /\ status' = IF ends THEN "done"
                        ELSE IF Skipped(line) THEN AfterSkip(status) ELSE status
           /\ result' = IF ends THEN cleanResponse(response \o emitted) ELSE result
           /\ IF pc = "stream" /\ emitted # <<>>
              THEN onDelta(emitted)
              ELSE UNCHANGED <<pc, printerVars>>
    /\ UNCHANGED <<input, readFails, inFlush, err, clock>>
    /\ UNCHANGED <<renderVars, spinnerVars, termVars>>

\* the return after the loop when scanner.Err() is nil
EofOutcomeError(accumulated) == [status |-> "error", result |-> <<>>]

EofOutcome(accumulated) == [status |-> "done", result |-> cleanResponse(accumulated)]

\* scanner.Scan() returns false with scanner.Err() == nil
ReadEOF ==
    /\ pc \in {"direct", "stream"}
    /\ status = "running"
    /\ pos = Len(input)
    /\ ~readFails
    /\ status' = EofOutcome(response).status
    /\ result' = EofOutcome(response).result
    /\ UNCHANGED <<input, readFails, pos, response, callbacks>>
    /\ UNCHANGED <<renderVars, askVars, printerVars, spinnerVars, termVars>>

\* the text returned with the error: return "", fmt.Errorf(...)
ErrorTextPartial(accumulated) == cleanResponse(accumulated)

ErrorText(accumulated) == <<>>

\* scanner.Scan() returns false with scanner.Err() != nil
ReadError ==
    /\ pc \in {"direct", "stream"}
    /\ status = "running"
    /\ pos = Len(input)
    /\ readFails
    /\ status' = "error"
    /\ result' = ErrorText(response)
    /\ UNCHANGED <<input, readFails, pos, response, callbacks>>
    /\ UNCHANGED <<renderVars, askVars, printerVars, spinnerVars, termVars>>

\* ProcessStream as a function of the lines the reader delivers and of
\* whether it then fails: the callbacks made, the text and the error
RECURSIVE ProcessStream(_, _, _, _)
ProcessStream(lines, fails, acc, cbs) ==
    IF lines = <<>>
    THEN IF fails
         THEN [callbacks |-> cbs, status |-> "error", result |-> ErrorText(acc)]
         ELSE [callbacks |-> cbs, status |-> EofOutcome(acc).status,
               result |-> EofOutcome(acc).result]
    ELSE LET line == Head(lines)
             data == Payload(line)
         IN  IF Skipped(line)
             THEN ProcessStream(Tail(lines), fails, acc, cbs)
             ELSE IF IsSentinel(data)
             THEN [callbacks |-> cbs, status |-> "done", result |-> cleanResponse(acc)]
             ELSE LET chunk == Unmarshal(data)
                      emitted == IF Emits(chunk) THEN chunk.delta_content ELSE <<>>
                      cbs2 == IF emitted # <<>> THEN Append(cbs, emitted) ELSE cbs
                  IN  IF Terminates(chunk)
                      THEN [callbacks |-> cbs2, status |-> "done",
                            result |-> cleanResponse(acc \o emitted)]
                      ELSE ProcessStream(Tail(lines), fails, acc \o emitted, cbs2)

\* ------------------------------------------------------------ the inputs
Completion == "chat:completion"

Chunk(t, d, dn) == <<Prefix, Json(t, d, dn)>>

DoneLine == <<Prefix, Sentinel>>

StreamDeltas == {<<"a">>, <<"H", "i">>, <<BT, BT>>, <<BT, BT, BT>>, <<NL>>}

StreamLines ==
    {Chunk(Completion, d, FALSE) : d \in StreamDeltas}
    \cup {Chunk(Completion, <<>>, FALSE),
          Chunk(Completion, <<"a">>, TRUE),
          Chunk(Completion, <<>>, TRUE),
          Chunk("other", <<"a">>, FALSE),
          Chunk("other", <<"a">>, TRUE),
          <<Prefix, Sentinel>>,
          <<Blank, Prefix, Sentinel>>,
          <<Prefix, Sentinel, Blank>>,
          <<Blank, Prefix, Json(Completion, <<"a">>, FALSE)>>,
          <<Prefix, Json(Completion, <<"a">>, FALSE), Blank>>,
          <<Prefix, Junk>>,
          <<Junk>>,
          <<>>}

RECURSIVE SeqsUpTo(_, _)
SeqsUpTo(S, n) ==
    IF n = 0 THEN {<<>>}
    ELSE LET shorter == SeqsUpTo(S, n - 1)
         IN  shorter \cup {Append(s, x) : s \in shorter, x \in S}

RenderIdle ==
    /\ doc = <<>>
    /\ rpc = "idle"
    /\ scanFrom = 1
    /\ out = <<>>
    /\ boxes = <<>>
    /\ rendered = <<>>
    /\ calls = <<>>

StreamIdle ==
    /\ input = <<>>
    /\ readFails = FALSE
    /\ pos = 0
    /\ response = <<>>
    /\ callbacks = <<>>
    /\ status = "idle"
    /\ result = <<>>

NoRender == [content |-> <<>>, lines |-> 0, up |-> 0, eraseAt |-> "none"]

PrinterNew ==
    /\ buffer = <<>>
    /\ lastLines = 0
    /\ lastUpdate = ZeroTime
    /\ now = 0
    /\ pending = NoRender
    /\ frames = <<>>

SpinnerNew ==
    /\ active = FALSE
    /\ cancelled = FALSE
    /\ mu = "free"
    /\ animPc = "none"
    /\ wg = 0
    /\ lastLen = 0
    /\ frameIndex = 0

TermNew ==
    /\ cursor = "main"
    /\ saved = "main"
    /\ corner = "blank"

\* no askQuestion in progress: ProcessStream or RenderMarkdown called alone
AskIdle ==
    /\ inFlush = FALSE
    /\ err = FALSE
    /\ clock = 0
    /\ throttle = Throttle
    /\ PrinterNew
    /\ SpinnerNew
    /\ TermNew

InitStream ==
    /\ RenderIdle
    /\ AskIdle
    /\ pc = "direct"
    /\ input \in SeqsUpTo(StreamLines, MaxLines)
    /\ readFails \in BOOLEAN
    /\ pos = 0
    /\ response = <<>>
    /\ callbacks = <<>>
    /\ status = "running"
    /\ result = <<>>

NextStream == Scan \/ ReadEOF \/ ReadError

SpecStream == InitStream /\ [][NextStream]_vars

\* ------------------------------------------- renderer: runes and widths
\* runes matched by [a-zA-Z0-9_+-] among the runes of the model
LangRunes == {"a", "d", "e", "g", "l", "o", "r", "w", "x", "H", "i", "_", "+", "-"}

\* U2 stands for a two-byte rune one column wide, W3 for a three-byte rune
\* two columns wide; the box-drawing runes take three bytes and one column
TL == "box-tl"
TR == "box-tr"
BL == "box-bl"
BR == "box-br"
HZ == "box-h"
VT == "box-v"
BoxRunes == {TL, TR, BL, BR, HZ, VT}

\* the part of a multi-byte rune left by a byte slice that cuts through it
Broken == "broken-bytes"

\* SGR escape sequences, one element each
SgrCyanBold == "ESC[36;1m"
SgrBold == "ESC[1m"
SgrItalic == "ESC[3m"
SgrInline == "ESC[100;37m"
SgrRed == "ESC[31;1m"
SgrYellow == "ESC[33;1m"
SgrGreen == "ESC[32;1m"
SgrToken == "ESC[38;5;Nm"
SgrReset == "ESC[0m"
SgrRunes ==
    {SgrCyanBold, SgrBold, SgrItalic, SgrInline, SgrRed, SgrYellow, SgrGreen,
     SgrToken, SgrReset}

\* len() of one rune, in bytes
RuneBytes(r) ==
    IF r = "U2" THEN 2
    ELSE IF r = "W3" \/ r \in BoxRunes THEN 3
    ELSE IF r \in SgrRunes THEN 4
    ELSE 1

\* columns one rune takes on the terminal
RuneWidth(r) ==
    IF r \in SgrRunes \/ r = NL THEN 0
    ELSE IF r = "W3" THEN 2
    ELSE 1

MinOf(S) == CHOOSE x \in S : \A y \in S : x <= y
MaxOf(S) == CHOOSE x \in S : \A y \in S : x >= y

\* bytes of t[lo..hi]
RECURSIVE ByteLenRange(_, _, _)
ByteLenRange(t, lo, hi) ==
    IF lo > hi THEN 0
    ELSE IF lo = hi THEN RuneBytes(t[lo])
    ELSE LET mid == (lo + hi) \div 2
         IN  ByteLenRange(t, lo, mid) + ByteLenRange(t, mid + 1, hi)

\* len(t)
ByteLen(t) == ByteLenRange(t, 1, Len(t))

RECURSIVE WidthRange(_, _, _)
WidthRange(t, lo, hi) ==
    IF lo > hi THEN 0
    ELSE IF lo = hi THEN RuneWidth(t[lo])
    ELSE LET mid == (lo + hi) \div 2
         IN  WidthRange(t, lo, mid) + WidthRange(t, mid + 1, hi)

DisplayWidth(t) == WidthRange(t, 1, Len(t))

\* strings.Repeat of one rune, for a count that is not negative
Repeat(r, n) == [i \in 1..n |-> r]

\* strings.Split(t, sep) for a one-rune separator
Split(t, sep) ==
    LET idx == {i \in 1..Len(t) : t[i] = sep}
        n == Cardinality(idx)
        Kth(k) == CHOOSE i \in idx : Cardinality({j \in idx : j <= i}) = k
    IN  [k \in 1..(n + 1) |->
            SubSeq(t, IF k = 1 THEN 1 ELSE Kth(k - 1) + 1,
                      IF k = n + 1 THEN Len(t) ELSE Kth(k) - 1)]

\* strings.Join(parts, sep)
RECURSIVE Join(_, _)
Join(parts, sep) ==
    IF parts = <<>> THEN <<>>
    ELSE IF Len(parts) = 1 THEN parts[1]
    ELSE parts[1] \o <<sep>> \o Join(Tail(parts), sep)

\* strings.Count(t, sep) for a one-rune separator
CountRune(t, r) == Cardinality({i \in 1..Len(t) : t[i] = r})

\* color.New(attrs...).Sprint(text)
Sprint(sgr, text) == <<sgr>> \o text \o <<SgrReset>>

\* ---------------------------------------- MarkdownRenderer.stripAnsiCodes
NotSgr(r) == r \notin SgrRunes

stripAnsiCodes(text) == SelectSeq(text, NotSgr)

\* ------------------------------------------ MarkdownRenderer.highlightCode
\* the terminal256 formatter emits each token between a colour sequence
\* and a reset; a token is taken to be one line of the code
RECURSIVE HighlightLines(_)
HighlightLines(ls) ==
    IF ls = <<>> THEN <<>>
    ELSE <<IF Head(ls) = <<>> THEN <<>> ELSE Sprint(SgrToken, Head(ls))>>
         \o HighlightLines(Tail(ls))

highlightCode(code, lang) == Join(HighlightLines(Split(code, NL)), NL)

\* ---------------------------------------- MarkdownRenderer.formatCodeBlock
MinBorderWidth == 44
MaxBorderWidth == 84

RECURSIVE MaxByteLen(_)
MaxByteLen(ls) ==
    IF ls = <<>> THEN 0
    ELSE LET m == MaxByteLen(Tail(ls))
             h == ByteLen(Head(ls))
         IN  IF h > m THEN h ELSE m

\* borderWidth := maxLen + 4, kept within [44, 84]
BorderWidth(maxLen) ==
    LET w == maxLen + 4
    IN  IF w < MinBorderWidth THEN MinBorderWidth
        ELSE IF w > MaxBorderWidth THEN MaxBorderWidth
        ELSE w

\* line[:n], a slice of bytes: a rune the cut goes through is left broken
SliceBytes(line, n) ==
    LET whole == MaxOf({k \in 0..Len(line) : ByteLenRange(line, 1, k) <= n})
    IN  SubSeq(line, 1, whole)
        \o (IF whole < Len(line) /\ ByteLenRange(line, 1, whole) < n
            THEN <<Broken>> ELSE <<>>)

\* strings.Repeat panics on a negative count: the label does not fit
LabelOverflows(code, lang) ==
    lang # <<>>
    /\ BorderWidth(MaxByteLen(Split(stripAnsiCodes(code), NL))) - (Len(lang) + 2) - 3 < 0

TopBorder(lang, borderWidth) ==
    IF lang # <<>>
    THEN <<TL, HZ, SP>> \o lang \o <<SP>>
         \o Repeat(HZ, borderWidth - (Len(lang) + 2) - 3) \o <<TR>>
    ELSE <<TL>> \o Repeat(HZ, borderWidth - 2) \o <<TR>>

\* one content row: truncate, pad, put between the side borders
ContentRow(line, contentWidth) ==
    LET long == ByteLen(line) > contentWidth
        cut == IF long
               THEN SliceBytes(line, contentWidth - 3) \o <<".", ".", ".">>
               ELSE line
        cutLen == IF long THEN contentWidth ELSE ByteLen(line)
    IN  Sprint(SgrCyanBold, <<VT, SP>>)
        \o cut \o Repeat(SP, contentWidth - cutLen)
        \o Sprint(SgrCyanBold, <<SP, VT>>) \o <<NL>>

RECURSIVE ContentRows(_, _)
ContentRows(ls, contentWidth) ==
    IF ls = <<>> THEN <<>>
    ELSE ContentRow(Head(ls), contentWidth) \o ContentRows(Tail(ls), contentWidth)

formatCodeBlock(code, lang) ==
    LET lines == Split(stripAnsiCodes(code), NL)
        borderWidth == BorderWidth(MaxByteLen(lines))
    IN  Sprint(SgrCyanBold, TopBorder(lang, borderWidth)) \o <<NL>>
        \o ContentRows(lines, borderWidth - 4)
        \o Sprint(SgrCyanBold, <<BL>> \o Repeat(HZ, borderWidth - 2) \o <<BR>>)
        \o <<NL>>

\* --------------------------------------- MarkdownRenderer.processCodeBlocks
IsFenceAt(t, i) == i + 2 <= Len(t) /\ t[i] = BT /\ t[i + 1] = BT /\ t[i + 2] = BT

\* first index at or after j whose rune is outside [a-zA-Z0-9_+-]
LangEnd(t, j) == MinOf({k \in j..(Len(t) + 1) : k > Len(t) \/ t[k] \notin LangRunes})

\* first index k at or after j with a newline at k and a fence right after
\* it, 0 when there is none: the shortest body of ([\s\S]*?)\n```
FindClose(t, j) ==
    LET ks == {k \in j..Len(t) : t[k] = NL /\ IsFenceAt(t, k + 1)}
    IN  IF ks = {} THEN 0 ELSE MinOf(ks)

NoMatch == [start |-> 0, stop |-> 0, lang |-> <<>>, code |-> <<>>]

\* the match of ```([a-zA-Z0-9_+-]*)\n([\s\S]*?)\n``` that starts at i
MatchAt(t, i) ==
    IF ~IsFenceAt(t, i) THEN NoMatch
    ELSE LET e == LangEnd(t, i + 3)
         IN  IF e > Len(t) \/ t[e] # NL THEN NoMatch
             ELSE LET k == FindClose(t, e + 1)
                  IN  IF k = 0 THEN NoMatch
                      ELSE [start |-> i, stop |-> k + 3,
                            lang |-> SubSeq(t, i + 3, e - 1),
                            code |-> SubSeq(t, e + 1, k - 1)]

\* the leftmost match at or after i
FindBlock(t, i) ==
    LET starts == {j \in i..Len(t) : IsFenceAt(t, j) /\ MatchAt(t, j).start # 0}
    IN  IF starts = {} THEN NoMatch ELSE MatchAt(t, MinOf(starts))

\* the function handed to ReplaceAllStringFunc
BlockReplacement(m) ==
    IF m.lang = <<>> THEN formatCodeBlock(m.code, <<>>)
    ELSE formatCodeBlock(highlightCode(m.code, m.lang), m.lang)

RECURSIVE ReplaceBlocks(_, _)
ReplaceBlocks(t, i) ==
    LET m == FindBlock(t, i)
    IN  IF m.start = 0 THEN SubSeq(t, i, Len(t))
        ELSE SubSeq(t, i, m.start - 1) \o BlockReplacement(m)
             \o ReplaceBlocks(t, m.stop + 1)

processCodeBlocks(content) == ReplaceBlocks(content, 1)

\* ---------------------------------- MarkdownRenderer.processMarkdownElements
AllAt(t, i, c, n) == i + n - 1 <= Len(t) /\ \A k \in i..(i + n - 1) : t[k] = c

\* first index at or after j whose rune is c, Len(t) + 1 when there is none
RunEnd(t, j, c) == MinOf({k \in j..(Len(t) + 1) : k > Len(t) \/ t[k] = c})

\* last index of the match of c{n}([^c]+)c{n} that starts at i, 0 if none
DelimMatchEnd(t, i, c, n) ==
    IF ~AllAt(t, i, c, n) THEN 0
    ELSE LET e == RunEnd(t, i + n, c)
         IN  IF e > i + n /\ AllAt(t, e, c, n) THEN e + n - 1 ELSE 0

\* strings.Trim(t, cutset)
RECURSIVE TrimCutLeft(_, _)
TrimCutLeft(t, cut) ==
    IF t # <<>> /\ Head(t) \in cut THEN TrimCutLeft(Tail(t), cut) ELSE t

RECURSIVE TrimCutRight(_, _)
TrimCutRight(t, cut) ==
    IF t # <<>> /\ t[Len(t)] \in cut
    THEN TrimCutRight(SubSeq(t, 1, Len(t) - 1), cut) ELSE t

Trim(t, cut) == TrimCutRight(TrimCutLeft(t, cut), cut)

\* ReplaceAllStringFunc for the alternation over the delimiter runes cs,
\* each repeated n times: the match is trimmed of cut, padded and coloured
RECURSIVE ReplaceDelimited(_, _, _, _, _, _, _)
ReplaceDelimited(t, i, cs, n, cut, pad, sgr) ==
    LET starts == {j \in i..Len(t) :
                      t[j] \in cs /\ DelimMatchEnd(t, j, t[j], n) # 0}
    IN  IF starts = {} THEN SubSeq(t, i, Len(t))
        ELSE LET b == MinOf(starts)
                 e == DelimMatchEnd(t, b, t[b], n)
             IN  SubSeq(t, i, b - 1)
                 \o Sprint(sgr, pad \o Trim(SubSeq(t, b, e), cut) \o pad)
                 \o ReplaceDelimited(t, e + 1, cs, n, cut, pad, sgr)

IsReSpace(r) == r \in {SP, "\t", CR, "\f"}

RECURSIVE HashRun(_, _)
HashRun(line, j) == IF j <= Len(line) /\ line[j] = "#" THEN HashRun(line, j + 1) ELSE j - 1

RECURSIVE SpaceRunEnd(_, _)
SpaceRunEnd(line, j) ==
    IF j <= Len(line) /\ IsReSpace(line[j]) THEN SpaceRunEnd(line, j + 1) ELSE j

HeaderColor(level) ==
    IF level = 1 THEN SgrRed
    ELSE IF level = 2 THEN SgrYellow
    ELSE IF level = 3 THEN SgrGreen
    ELSE SgrCyanBold

\* one line through ^(#{1,6})\s+(.+)$
HeaderLine(line) ==
    LET level == HashRun(line, 1)
        s == SpaceRunEnd(line, level + 1)
    IN  IF level >= 1 /\ level <= 6 /\ s > level + 1 /\ Len(line) >= level + 2
        THEN Sprint(HeaderColor(level),
                    IF s <= Len(line) THEN SubSeq(line, s, Len(line))
                    ELSE <<line[Len(line)]>>)
        ELSE line

RECURSIVE HeaderLines(_)
HeaderLines(ls) ==
    IF ls = <<>> THEN <<>> ELSE <<HeaderLine(Head(ls))>> \o HeaderLines(Tail(ls))

processMarkdownElements(content) ==
    LET bold == ReplaceDelimited(content, 1, {"*", "_"}, 2, {"*", "_"}, <<>>, SgrBold)
        italic == ReplaceDelimited(bold, 1, {"*", "_"}, 1, {"*", "_"}, <<>>, SgrItalic)
        inline == ReplaceDelimited(italic, 1, {BT}, 1, {BT}, <<SP>>, SgrInline)
    IN  Join(HeaderLines(Split(inline, NL)), NL)

\* ------------------------------------------ MarkdownRenderer.RenderMarkdown
RenderMarkdown(content) == processMarkdownElements(processCodeBlocks(content))

\* ------------------------------------------------ streamingPrinter.render
\* the cursor-up count of the erase sequence
EraseCountNew(prevLines, newLines) == newLines

EraseCount(prevLines, newLines) == prevLines

\* what the terminal shows of the printer's output once ESC[<up>A, \r and
\* ESC[J (when up > 0) and then content have been written after shown: the
\* cursor goes up from the line it is on, everything from the start of that
\* line on is erased, and the content follows what is left
TerminalAfter(shown, up, content) ==
    IF up = 0 THEN shown \o content
    ELSE LET nls == {i \in 1..Len(shown) : shown[i] = NL}
             line == Cardinality(nls) + 1
             target == IF line - up < 1 THEN 1 ELSE line - up
             kept == IF target = 1 THEN 0
                     ELSE CHOOSE i \in nls :
                            Cardinality({j \in nls : j <= i}) = target - 1
         IN  SubSeq(shown, 1, kept) \o content

\* what the terminal shows after the repaints fs, made one after the other
RECURSIVE TerminalShows(_)
TerminalShows(fs) ==
    IF fs = <<>> THEN <<>>
    ELSE TerminalAfter(TerminalShows(SubSeq(fs, 1, Len(fs) - 1)),
                       fs[Len(fs)].up, fs[Len(fs)].content)

\* render, first write: the content is rendered and, when lastLines > 0,
\* the erase sequence ESC[<n>A \r ESC[J is written
RenderErase ==
    /\ pc = "render1"
    /\ LET content == RenderMarkdown(buffer)
           lines == CountRune(content, NL)
       IN  pending' = [content |-> content,
                       lines |-> lines,
                       up |-> IF lastLines > 0 THEN EraseCount(lastLines, lines) ELSE 0,
                       eraseAt |-> IF lastLines > 0 THEN cursor ELSE "none"]
    /\ pc' = "render2"
    /\ UNCHANGED <<buffer, lastLines, lastUpdate, throttle, now, frames>>
    /\ UNCHANGED <<inFlush, err, clock>>
    /\ UNCHANGED <<streamVars, renderVars, spinnerVars, termVars>>

\* render, second write: fmt.Print(content); then lastLines is set and the
\* caller goes on (onDelta sets lastUpdate, flush prints a newline)
RenderPrint ==
    /\ pc = "render2"
    /\ frames' = Append(frames, [content |-> pending.content,
                                 up |-> pending.up,
                                 eraseAt |-> pending.eraseAt,
                                 printAt |-> cursor,
                                 spinning |-> active])
    /\ lastLines' = pending.lines
    /\ pending' = NoRender
    /\ lastUpdate' = IF inFlush THEN lastUpdate ELSE now
    /\ pc' = IF inFlush THEN "println" ELSE "stream"
    /\ UNCHANGED <<buffer, throttle, now>>
    /\ UNCHANGED <<inFlush, err, clock>>
    /\ UNCHANGED <<streamVars, renderVars, spinnerVars, termVars>>

\* flush: fmt.Println() after its render; the function given to
\* WithSpinner returns nil and the deferred Stop runs
FlushPrintln ==
    /\ pc = "println"
    /\ pc' = "stopping"
    /\ inFlush' = FALSE
    /\ UNCHANGED <<err, clock>>
    /\ UNCHANGED <<streamVars, renderVars, printerVars, spinnerVars, termVars>>

\* ---------------------------------------------------------- RightSpinner
LabelLen == 8

\* len(fmt.Sprintf("%s [%s]", label, frame))
SpinnerLen == LabelLen + 4

\* s.mu.Lock() is granted when no reader and no writer holds the mutex
CanLockAnyway(m) == TRUE

CanLock(m) == m = "free"

\* RightSpinner.Start, under the write lock
Start ==
    /\ CanLock(mu)
    /\ IF active
       THEN UNCHANGED <<active, wg, animPc, frameIndex>>
       ELSE /\ active' = TRUE
            /\ wg' = wg + 1
            /\ animPc' = "select"
            /\ frameIndex' = 0
    /\ UNCHANGED <<cancelled, mu, lastLen>>

\* defer s.wg.Done() of animate
WgDoneMissing(n) == n

WgDone(n) == n - 1

\* animate: the ticker case of the select; RLock, test of active
AnimTick ==
    /\ animPc = "select"
    /\ frameIndex < MaxDraws
    /\ mu # "w"
    /\ IF ~active
       THEN /\ animPc' = "exited"
            /\ wg' = WgDone(wg)
            /\ UNCHANGED mu
       ELSE /\ animPc' = "save"
            /\ mu' = "r"
            /\ UNCHANGED wg
    /\ UNCHANGED <<active, cancelled, lastLen, frameIndex>>
    /\ UNCHANGED <<streamVars, renderVars, askVars, printerVars, termVars>>

\* animate: the ctx.Done() case of the select
AnimCancelled ==
    /\ animPc = "select"
    /\ cancelled
    /\ animPc' = "exited"
    /\ wg' = WgDone(wg)
    /\ UNCHANGED <<active, cancelled, mu, lastLen, frameIndex>>
    /\ UNCHANGED <<streamVars, renderVars, askVars, printerVars, termVars>>

\* drawTopRight: fmt.Print("\x1b7")
DrawSave ==
    /\ animPc = "save"
    /\ saved' = cursor
    /\ animPc' = "move"
    /\ UNCHANGED <<cursor, corner>>
    /\ UNCHANGED <<active, cancelled, mu, wg, lastLen, frameIndex>>
    /\ UNCHANGED <<streamVars, renderVars, askVars, printerVars>>

\* drawTopRight: fmt.Printf("\x1b[%d;%dH", 1, col)
DrawMove ==
    /\ animPc = "move"
    /\ cursor' = "corner"
    /\ animPc' = "print"
    /\ UNCHANGED <<saved, corner>>
    /\ UNCHANGED <<active, cancelled, mu, wg, lastLen, frameIndex>>
    /\ UNCHANGED <<streamVars, renderVars, askVars, printerVars>>

\* s.frames[frameIndex%len(s.frames)]
SpinnerFrames == <<"|", "/", "-", "\\">>

SpinnerFrame(i) == SpinnerFrames[(i % Len(SpinnerFrames)) + 1]

\* drawTopRight: fmt.Print(content); s.lastLen = len(content)
DrawPrint ==
    /\ animPc = "print"
    /\ corner' = IF cursor = "corner" THEN SpinnerFrame(frameIndex) ELSE corner
    /\ lastLen' = SpinnerLen
    /\ animPc' = "restore"
    /\ UNCHANGED <<cursor, saved>>
    /\ UNCHANGED <<active, cancelled, mu, wg, frameIndex>>
    /\ UNCHANGED <<streamVars, renderVars, askVars, printerVars>>

\* drawTopRight: fmt.Print("\x1b8"); then RUnlock and frameIndex++
DrawRestore ==
    /\ animPc = "restore"
    /\ cursor' = saved
    /\ mu' = "free"
    /\ frameIndex' = frameIndex + 1
    /\ animPc' = "select"
    /\ UNCHANGED <<saved, corner>>
    /\ UNCHANGED <<active, cancelled, wg, lastLen>>
    /\ UNCHANGED <<streamVars, renderVars, askVars, printerVars>>

\* ------------------------------------ askQuestion / SpinnerHandler.WithSpinner
\* WithSpinner: h.Start(); the function starts (no files to process)
AskStart ==
    /\ pc = "start"
    /\ Start
    /\ pc' = "stream"
    /\ UNCHANGED <<inFlush, err, clock>>
    /\ UNCHANGED <<streamVars, renderVars, printerVars, termVars>>

\* time passes while ProcessStream waits for the next line
ClockStep == 40

ClockAdvance ==
    /\ pc = "stream"
    /\ status = "running"
    /\ clock < MaxClock
    /\ clock' = clock + ClockStep
    /\ UNCHANGED <<pc, inFlush, err>>
    /\ UNCHANGED <<streamVars, renderVars, printerVars, spinnerVars, termVars>>

\* ChatStream returned nil: printer.flush()
StreamOk ==
    /\ pc = "stream"
    /\ status = "done"
    /\ inFlush' = TRUE
    /\ pc' = "render1"
    /\ UNCHANGED <<err, clock>>
    /\ UNCHANGED <<streamVars, renderVars, printerVars, spinnerVars, termVars>>

\* ChatStream returned an error: the function returns it, no flush
StreamErr ==
    /\ pc = "stream"
    /\ status = "error"
    /\ err' = TRUE
    /\ pc' = "stopping"
    /\ UNCHANGED <<inFlush, clock>>
    /\ UNCHANGED <<streamVars, renderVars, printerVars, spinnerVars, termVars>>

\* the deferred h.Stop(): RightSpinner.Stop up to wg.Wait()
Stop ==
    /\ pc = "stopping"
    /\ CanLock(mu)
    /\ IF ~active
       THEN /\ pc' = "returned"
            /\ UNCHANGED <<active, cancelled>>
       ELSE /\ active' = FALSE
            /\ cancelled' = TRUE
            /\ pc' = "waiting"
    /\ UNCHANGED <<mu, animPc, wg, lastLen, frameIndex>>
    /\ UNCHANGED <<inFlush, err, clock>>
    /\ UNCHANGED <<streamVars, renderVars, printerVars, termVars>>

\* s.wg.Wait() returns once the counter is zero
WaitReturnsAtOnce(n) == TRUE

WaitReturns(n) == n = 0

\* Stop: s.wg.Wait() returns
StopWait ==
    /\ pc = "waiting"
    /\ WaitReturns(wg)
    /\ pc' = "clear1"
    /\ UNCHANGED <<inFlush, err, clock>>
    /\ UNCHANGED <<streamVars, renderVars, printerVars, spinnerVars, termVars>>

\* clearTopRight: fmt.Print("\x1b7")
ClearSave ==
    /\ pc = "clear1"
    /\ saved' = cursor
    /\ pc' = "clear2"
    /\ UNCHANGED <<cursor, corner>>
    /\ UNCHANGED <<inFlush, err, clock>>
    /\ UNCHANGED <<streamVars, renderVars, printerVars, spinnerVars>>

\* clearTopRight: fmt.Printf("\x1b[%d;%dH", 1, col)
ClearMove ==
    /\ pc = "clear2"
    /\ cursor' = "corner"
    /\ pc' = "clear3"
    /\ UNCHANGED <<saved, corner>>
    /\ UNCHANGED <<inFlush, err, clock>>
    /\ UNCHANGED <<streamVars, renderVars, printerVars, spinnerVars>>

\* clearTopRight: fmt.Print(strings.Repeat(" ", s.lastLen))
ClearPrint ==
    /\ pc = "clear3"
    /\ corner' = IF lastLen > 0 THEN "blank" ELSE corner
    /\ pc' = "clear4"
    /\ UNCHANGED <<cursor, saved>>
    /\ UNCHANGED <<inFlush, err, clock>>
    /\ UNCHANGED <<streamVars, renderVars, printerVars, spinnerVars>>

\* clearTopRight: fmt.Print("\x1b8"); Stop and WithSpinner return
ClearRestore ==
    /\ pc = "clear4"
    /\ cursor' = saved
    /\ pc' = "returned"
    /\ UNCHANGED <<saved, corner>>
    /\ UNCHANGED <<inFlush, err, clock>>
    /\ UNCHANGED <<streamVars, renderVars, printerVars, spinnerVars>>

\* askQuestion after WithSpinner: HandleFatalError on an error
AskReturn ==
    /\ pc = "returned"
    /\ pc' = IF err THEN "fatal" ELSE "exit"
    /\ UNCHANGED <<inFlush, err, clock>>
    /\ UNCHANGED <<streamVars, renderVars, printerVars, spinnerVars, termVars>>

Text(d) == Chunk(Completion, d, FALSE)

AskInputs ==
    {<<Text(<<"H", "e">>), Text(<<"l", "l", "o", SP>>),
       Text(<<"w", "o", "r">>), Text(<<"l", "d">>), DoneLine>>,
     <<Text(<<"a", NL, "a", NL>>), Text(<<"*", "a", "*">>), DoneLine>>,
     <<Text(Fence \o <<NL, "x", NL, BT, BT>>), Text(<<BT, NL>>), Text(<<"a">>)>>,
     <<Text(<<"a">>), Text(<<"a">>)>>,
     <<Text(Fence \o <<NL, "x">>), DoneLine>>,
     <<>>}

InitAsk ==
    /\ RenderIdle
    /\ input \in AskInputs
    /\ readFails \in BOOLEAN
    /\ pos = 0
    /\ response = <<>>
    /\ callbacks = <<>>
    /\ status = "running"
    /\ result = <<>>
    /\ pc = "start"
    /\ inFlush = FALSE
    /\ err = FALSE
    /\ clock = 0
    /\ throttle \in {0, Throttle}
    /\ PrinterNew
    /\ SpinnerNew
    /\ TermNew

NextAsk ==
    \/ AskStart \/ Scan \/ ReadEOF \/ ReadError \/ ClockAdvance
    \/ RenderErase \/ RenderPrint \/ StreamOk \/ StreamErr \/ FlushPrintln
    \/ Stop \/ StopWait \/ ClearSave \/ ClearMove \/ ClearPrint \/ ClearRestore
    \/ AskReturn
    \/ AnimTick \/ AnimCancelled \/ DrawSave \/ DrawMove \/ DrawPrint \/ DrawRestore

SpecAsk == InitAsk /\ [][NextAsk]_vars

\* ------------------------------------------- RightSpinner used on its own
\* the calling goroutine calls Start (part_003:293, part_015:21)
CallStart ==
    /\ pc = "caller"
    /\ Start
    /\ UNCHANGED <<pc, inFlush, err, clock>>
    /\ UNCHANGED <<streamVars, renderVars, printerVars, termVars>>

\* the calling goroutine calls Stop (part_003:304, part_015:26)
CallStop ==
    /\ pc = "caller"
    /\ pc' = "stopping"
    /\ UNCHANGED <<inFlush, err, clock>>
    /\ UNCHANGED <<streamVars, renderVars, printerVars, spinnerVars, termVars>>

\* Stop has returned and the calling goroutine goes on
CallerResume ==
    /\ pc = "returned"
    /\ pc' = "caller"
    /\ UNCHANGED <<inFlush, err, clock>>
    /\ UNCHANGED <<streamVars, renderVars, printerVars, spinnerVars, termVars>>

InitSpinner ==
    /\ RenderIdle
    /\ StreamIdle
    /\ AskIdle
    /\ pc = "caller"

NextSpinner ==
    \/ CallStart \/ CallStop \/ CallerResume
    \/ Stop \/ StopWait \/ ClearSave \/ ClearMove \/ ClearPrint \/ ClearRestore
    \/ AnimTick \/ AnimCancelled \/ DrawSave \/ DrawMove \/ DrawPrint \/ DrawRestore

SpecSpinner == InitSpinner /\ [][NextSpinner]_vars

\* the scheduler runs every goroutine that can take a step; of the ready
\* cases of a select each is chosen sooner or later
SpecSpinnerFair ==
    /\ SpecSpinner
    /\ WF_vars(Stop) /\ WF_vars(StopWait)
    /\ WF_vars(ClearSave) /\ WF_vars(ClearMove)
    /\ WF_vars(ClearPrint) /\ WF_vars(ClearRestore)
    /\ WF_vars(AnimTick) /\ SF_vars(AnimCancelled)
    /\ WF_vars(DrawSave) /\ WF_vars(DrawMove)
    /\ WF_vars(DrawPrint) /\ WF_vars(DrawRestore)

\* ------------------------------------------------ cleanResponse on its own
MaxText == 7

TextRunes == {"a", NL, CR, BT, SP}

\* cleanResponse(text) is called on the accumulated text
CleanOnce ==
    /\ status = "text"
    /\ result' = cleanResponse(response)
    /\ status' = "cleaned"
    /\ UNCHANGED <<input, readFails, pos, response, callbacks>>
    /\ UNCHANGED <<renderVars, askVars, printerVars, spinnerVars, termVars>>

\* cleanResponse is called on the text it returned; callbacks keeps the
\* first return value
CleanAgain ==
    /\ status = "cleaned"
    /\ callbacks' = <<result>>
    /\ result' = cleanResponse(result)
    /\ status' = "cleaned2"
    /\ UNCHANGED <<input, readFails, pos, response>>
    /\ UNCHANGED <<renderVars, askVars, printerVars, spinnerVars, termVars>>

InitClean ==
    /\ RenderIdle
    /\ AskIdle
    /\ pc = "direct"
    /\ input = <<>>
    /\ readFails = FALSE
    /\ pos = 0
    /\ response \in SeqsUpTo(TextRunes, MaxText)
    /\ callbacks = <<>>
    /\ status = "text"
    /\ result = <<>>

NextClean == CleanOnce \/ CleanAgain

SpecClean == InitClean /\ [][NextClean]_vars

\* ------------------------------------------------------- stream claims
\* a line that is a data record: the prefix followed by one JSON object
IsRecord(line) ==
    /\ Len(line) >= 2
    /\ line[1] = Prefix
    /\ \E i \in 2..Len(line) :
          /\ line[i].k = "json"
          /\ \A j \in 2..Len(line) : j # i => line[j] = Blank

RecordOf(line) == line[CHOOSE i \in 2..Len(line) : line[i].k = "json"]

IsTerminalMarker(line) == line = DoneLine \/ (IsRecord(line) /\ RecordOf(line).done)

\* the lines up to and including the first terminal marker
RECURSIVE UpToTerminal(_)
UpToTerminal(lines) ==
    IF lines = <<>> THEN <<>>
    ELSE IF IsTerminalMarker(Head(lines)) THEN <<Head(lines)>>
    ELSE <<Head(lines)>> \o UpToTerminal(Tail(lines))

RECURSIVE ContentOf(_)
ContentOf(lines) ==
    IF lines = <<>> THEN <<>>
    ELSE LET l == Head(lines)
         IN  (IF IsRecord(l) /\ RecordOf(l).type = Completion
                 /\ RecordOf(l).delta_content # <<>>
              THEN <<RecordOf(l).delta_content>> ELSE <<>>)
             \o ContentOf(Tail(lines))

ExpectedDeltas(lines) == ContentOf(UpToTerminal(lines))

HiStream == <<Chunk(Completion, <<"H", "i">>, FALSE), DoneLine>>

\* C1: the deltas handed to the callback are, in stream order and once each,
\* the delta_content of the chat:completion records with non-empty content
\* read up to the terminal marker; the stream [Hi record, data: [DONE]]
\* decodes to ContentChunk("Hi") followed by Done.
C1_CallbackSequence ==
    /\ callbacks = ExpectedDeltas(SubSeq(input, 1, pos))
    /\ status # "running" => callbacks = ExpectedDeltas(input)
    /\ (input = HiStream /\ status # "running")
          => callbacks = << <<"H", "i">> >> /\ status = "done"

C1_Witness ==
    /\ input = HiStream
    /\ status = "done"
    /\ callbacks = << <<"H", "i">> >>

\* C2: once a line data: [DONE] has been read the call has returned with a
\* nil error, that line is the last one taken from the reader, and the
\* callback has run only for lines before it.
C2_SentinelTerminates ==
    \A i \in 1..pos :
        input[i] = DoneLine
          => /\ status = "done"
             /\ pos = i
             /\ Len(callbacks) = Len(ContentOf(SubSeq(input, 1, i - 1)))

C2_Witness ==
    /\ status = "done"
    /\ pos >= 1 /\ pos < Len(input)
    /\ input[pos] = DoneLine
    /\ input[pos + 1] = Chunk(Completion, <<"a">>, FALSE)

\* C3: a record whose done flag is true ends the call with a nil error
\* whatever its type, its own non-empty chat:completion content is handed
\* to the callback first, and no later line is read.
C3_DoneFlagTerminates ==
    \A i \in 1..pos :
        (IsRecord(input[i]) /\ RecordOf(input[i]).done)
          => /\ status = "done"
             /\ pos = i
             /\ (RecordOf(input[i]).type = Completion
                   /\ RecordOf(input[i]).delta_content # <<>>)
                  => /\ callbacks # <<>>
                     /\ callbacks[Len(callbacks)] = RecordOf(input[i]).delta_content
             /\ result = cleanResponse(Concat(callbacks))

C3_WitnessOtherType ==
    /\ status = "done"
    /\ pos >= 1 /\ pos < Len(input)
    /\ input[pos] = Chunk("other", <<"a">>, TRUE)

C3_Witness ==
    /\ status = "done"
    /\ pos = 2 /\ pos < Len(input)
    /\ input[pos] = Chunk(Completion, <<"a">>, TRUE)
    /\ callbacks = << <<"H", "i">>, <<"a">> >>

\* strings.Count(text, fence): non-overlapping occurrences, left to right
RECURSIVE FenceMarkers(_)
FenceMarkers(text) ==
    IF Len(text) < 3 THEN 0
    ELSE IF text[1] = BT /\ text[2] = BT /\ text[3] = BT
         THEN 1 + FenceMarkers(SubSeq(text, 4, Len(text)))
         ELSE FenceMarkers(Tail(text))

\* C4: the text returned for a stream that ends in data: [DONE] holds an
\* even number of triple-backtick fence markers.
C4_EvenFences ==
    (status = "done" /\ pos >= 1 /\ input[pos] = DoneLine)
      => FenceMarkers(result) % 2 = 0

\* ------------------------------------------- RenderMarkdown, step by step
\* one call of the function handed to ReplaceAllStringFunc, on the next match
ReplaceBlock ==
    /\ rpc = "blocks"
    /\ LET m == FindBlock(doc, scanFrom)
       IN  /\ m.start # 0
           /\ IF LabelOverflows(m.code, m.lang)
              THEN /\ rpc' = "panic"
                   /\ UNCHANGED <<scanFrom, out, boxes>>
              ELSE /\ out' = out \o SubSeq(doc, scanFrom, m.start - 1)
                                 \o BlockReplacement(m)
                   /\ boxes' = Append(boxes, BlockReplacement(m))
                   /\ scanFrom' = m.stop + 1
                   /\ UNCHANGED rpc
    /\ UNCHANGED <<doc, rendered, calls>>
    /\ UNCHANGED <<streamVars, askVars, printerVars, spinnerVars, termVars>>

\* no further match: the rest of the content is copied as it is
BlocksDone ==
    /\ rpc = "blocks"
    /\ FindBlock(doc, scanFrom).start = 0
    /\ out' = out \o SubSeq(doc, scanFrom, Len(doc))
    /\ scanFrom' = Len(doc) + 1
    /\ rpc' = "inline"
    /\ UNCHANGED <<doc, boxes, rendered, calls>>
    /\ UNCHANGED <<streamVars, askVars, printerVars, spinnerVars, termVars>>

InlinePass ==
    /\ rpc = "inline"
    /\ rendered' = processMarkdownElements(out)
    /\ rpc' = "done"
    /\ UNCHANGED <<doc, scanFrom, out, boxes, calls>>
    /\ UNCHANGED <<streamVars, askVars, printerVars, spinnerVars, termVars>>

Go == <<"g", "o">>
Closed(lang, body) == Fence \o lang \o <<NL>> \o body \o <<NL>> \o Fence

Segments ==
    {<<"a">>,
     <<NL>>,
     <<"*", "a", "*">>,
     <<"*", "*", "a", "*", "*">>,
     <<BT, "a", BT>>,
     <<"#", SP, "a">>,
     Closed(Go, <<"x">>),
     Closed(<<>>, <<"x">>),
     Closed(Go, <<>>),
     Closed(Go, <<"x", NL, "a", "a">>),
     Closed(Go, <<"U2">>),
     Closed(Go, <<"W3", "x">>),
     Closed(Go, <<"*", "x", "*">>),
     Closed(Go, Repeat("a", MinBorderWidth - 3)),
     Closed(Go, Repeat("a", MaxBorderWidth + 1)),
     Closed(Go, Repeat("U2", MinBorderWidth - 3)),
     Closed(Repeat("x", MinBorderWidth - 4), <<"x">>),
     Fence \o Go,
     Fence \o Go \o <<NL>>,
     Fence \o Go \o <<NL, "x">>}

Docs == {Concat(ss) : ss \in SeqsUpTo(Segments, MaxSegments)}

\* the buffer a call of ReplaceAllStringFunc builds its result in is local
\* to the call
FreshOutKeeps(previous) == previous

FreshOut(previous) == <<>>

MaxCalls == 2

\* the contents handed to a later call: one handed to a call before, or a
\* shorter prefix of it, as the repaints of a growing buffer do
IsPrefixOf(p, t) == Len(p) <= Len(t) /\ SubSeq(t, 1, Len(p)) = p

\* RenderMarkdown has returned and is called again
CallAgain ==
    /\ rpc = "done"
    /\ Len(calls) < MaxCalls
    /\ calls' = Append(calls, [doc |-> doc, rendered |-> rendered])
    /\ doc' \in {doc} \cup {calls[n].doc : n \in 1..Len(calls)}
                 \cup {p \in Segments : IsPrefixOf(p, doc)}
    /\ rpc' = "blocks"
    /\ scanFrom' = 1
    /\ out' = FreshOut(out)
    /\ boxes' = <<>>
    /\ rendered' = <<>>
    /\ UNCHANGED <<streamVars, askVars, printerVars, spinnerVars, termVars>>

InitRender ==
    /\ StreamIdle
    /\ AskIdle
    /\ pc = "idle"
    /\ doc \in Docs
    /\ rpc = "blocks"
    /\ scanFrom = 1
    /\ out = <<>>
    /\ boxes = <<>>
    /\ rendered = <<>>
    /\ calls = <<>>

NextRender == ReplaceBlock \/ BlocksDone \/ InlinePass \/ CallAgain

SpecRender == InitRender /\ [][NextRender]_vars

\* ------------------------------------------------------ renderer claims
\* the content left outside the matched blocks
RECURSIVE Unmatched(_, _)
Unmatched(t, i) ==
    LET m == FindBlock(t, i)
    IN  IF m.start = 0 THEN SubSeq(t, i, Len(t))
        ELSE SubSeq(t, i, m.start - 1) \o Unmatched(t, m.stop + 1)

RECURSIVE MatchedBlocks(_, _)
MatchedBlocks(t, i) ==
    LET m == FindBlock(t, i)
    IN  IF m.start = 0 THEN 0 ELSE 1 + MatchedBlocks(t, m.stop + 1)

\* an unmatched trailing opening fence whose language tag line has ended
OpenBlockRenderable(t) ==
    LET u == Unmatched(t, 1)
        fs == {i \in 1..Len(u) : IsFenceAt(u, i)}
    IN  /\ FenceMarkers(u) % 2 = 1
        /\ \E k \in (MaxOf(fs) + 3)..Len(u) : u[k] = NL

\* C7: N matched fenced blocks are rendered as N boxes, and an unmatched
\* trailing opening fence followed by its tag line and a newline is
\* rendered as one more box.
C7_BoxPerBlock ==
    rpc = "done"
      => CountRune(rendered, TL)
           = MatchedBlocks(doc, 1) + (IF OpenBlockRenderable(doc) THEN 1 ELSE 0)

\* the rows of one box: its text without the final newline, split at newlines
BoxRows(b) == Split(SubSeq(b, 1, Len(b) - 1), NL)

\* C8: every rendered code block has exactly one top border, and its top
\* border, content rows and bottom border all have the same display width.
C8_BoxWidths ==
    /\ rpc # "panic"
    /\ \A n \in 1..Len(boxes) :
         /\ CountRune(boxes[n], TL) = 1
         /\ \A r \in 1..Len(BoxRows(boxes[n])) :
              DisplayWidth(BoxRows(boxes[n])[r]) = DisplayWidth(BoxRows(boxes[n])[1])

\* ------------------------------------------------ printer / spinner claims
LineCount(content) == CountRune(content, NL)

\* C5: before every repaint after the first the cursor-up count issued is
\* the line count of the frame painted before it (no cursor-up sequence is
\* written when that count is 0), not the line count of the new rendering.
C5_EraseUsesPreviousFrame ==
    /\ \A n \in 2..Len(frames) : frames[n].up = LineCount(frames[n - 1].content)
    /\ (pc = "render2" /\ frames # <<>>)
         => pending.up = LineCount(frames[Len(frames)].content)

C5_Witness ==
    /\ Len(frames) >= 2
    /\ frames[Len(frames)].up = 2
    /\ LineCount(frames[Len(frames) - 1].content) = 2
    /\ LineCount(frames[Len(frames)].content) = 4

NoNewline(deltas) ==
    \A n \in 1..Len(deltas) : \A i \in 1..Len(deltas[n]) : deltas[n][i] # NL

HelloWorld == <<"H", "e", "l", "l", "o", SP, "w", "o", "r", "l", "d">>

\* C6: with the throttle at 0 and no newline in any delta, once onDelta or
\* flush has returned the last content painted is RenderMarkdown of the
\* concatenation of all deltas received (He, llo , wor, ld: Hello world).
C6_FinalRepaintIsWholeText ==
    (throttle = 0 /\ callbacks # <<>> /\ NoNewline(callbacks)
       /\ pc \notin {"start", "render1", "render2"})
      => /\ frames # <<>>
         /\ frames[Len(frames)].content = RenderMarkdown(Concat(callbacks))

C6_Witness ==
    /\ throttle = 0
    /\ pc = "exit"
    /\ Len(callbacks) = 4
    /\ Concat(callbacks) = HelloWorld
    /\ frames[Len(frames)].content = HelloWorld

\* C9: the spinner has been stopped and its corner blanked before the
\* printer repaints: no repaint is made while the spinner is active.
C9_SpinnerStoppedBeforeRepaint ==
    /\ pc \in {"render1", "render2"} => (~active /\ animPc \in {"none", "exited"})
    /\ \A n \in 1..Len(frames) : ~frames[n].spinning

\* C10: whatever the interleaving of the spinner's four writes with the
\* printer's, the printer's erase and its print act at the printer's own
\* cursor position, never at the spinner's corner.
C10_PrinterCursorUndisturbed ==
    /\ \A n \in 1..Len(frames) :
         frames[n].printAt = "main" /\ frames[n].eraseAt \in {"main", "none"}
    /\ pending.eraseAt \in {"main", "none"}

\* C11: Stop is synchronous. When a call of Stop has returned, and until the
\* next Start, the animate goroutine has exited (or was never started), the
\* WaitGroup counter is zero and the top-right corner is blank, so no draw
\* of the spinner follows a returned Stop.
C11_StopSynchronous ==
    (pc = "returned" \/ (pc = "caller" /\ ~active))
      => /\ animPc \in {"none", "exited"}
         /\ wg = 0
         /\ ~active
         /\ corner = "blank"
         /\ cursor = "main"

C11_Witness ==
    /\ pc = "returned"
    /\ animPc = "exited"
    /\ lastLen = SpinnerLen
    /\ frameIndex >= 1
    /\ corner = "blank"

HasNewline(delta) == \E i \in 1..Len(delta) : delta[i] = NL

\* C12: onDelta appends the delta to the buffer; it repaints when the delta
\* holds a newline, and otherwise exactly when at least the throttle has
\* passed since the time recorded at the last repaint it made (an onDelta
\* of a newline-free delta inside the interval paints nothing); a repaint
\* made by onDelta records the time of that onDelta.
C12_ThrottledRepaint ==
    [][/\ (pc = "stream" /\ callbacks' # callbacks)
          => LET delta == callbacks'[Len(callbacks')]
             IN  /\ buffer' = buffer \o delta
                 /\ HasNewline(delta) => pc' = "render1"
                 /\ ~HasNewline(delta)
                      => (pc' = "render1" <=> clock - lastUpdate >= throttle)
                 /\ pc' # "render1" => (pc' = "stream" /\ frames' = frames)
       /\ (pc = "render2" /\ pc' = "stream") => lastUpdate' = clock]_vars

C12_Witness ==
    /\ throttle = Throttle
    /\ pc = "stream"
    /\ Len(callbacks) = 2
    /\ ~HasNewline(callbacks[2])
    /\ buffer = Concat(callbacks)
    /\ Len(frames) = 1
    /\ now - lastUpdate = ClockStep

\* C13: once the stream is done, flush makes one more repaint and the frame
\* it paints is the rendering of the finalized text returned by the decoder
\* (normalized and fence-balanced).
C13_FlushPaintsFinalized ==
    (status = "done" /\ ~err /\ pc \in {"println", "stopping", "returned", "exit"})
      => /\ frames # <<>>
         /\ frames[Len(frames)].content = RenderMarkdown(result)

\* C14: when the reader fails ProcessStream returns an error and the empty
\* text, whatever had been accumulated, and from then on the callback is
\* not invoked and no further line is decoded.
C14_ReadFailureEndsWithError ==
    /\ [](status = "error" => (result = <<>> /\ readFails /\ pos = Len(input)))
    /\ [][status = "error"
            => (callbacks' = callbacks /\ pos' = pos /\ status' = "error"
                /\ result' = result)]_vars

C14_Witness ==
    /\ status = "error"
    /\ Len(callbacks) = 2
    /\ response = Concat(callbacks)
    /\ result = <<>>

\* C15: after a read failure in mid-stream the display shows the partial
\* buffer, every delta delivered before the failure, nothing painted
\* earlier having been lost, before the error notice is written.
C15_PartialBufferShownOnFailure ==
    (pc = "fatal" /\ callbacks # <<>>)
      => /\ frames # <<>>
         /\ frames[Len(frames)].content = RenderMarkdown(Concat(callbacks))

NoTerminalMarker(lines) == \A i \in 1..Len(lines) : ~IsTerminalMarker(lines[i])

\* C16: a stream that ends without a line data: [DONE] and without a record
\* whose done flag is true is an implicit Done: every line has been read,
\* the error is nil and the text returned is the finalized accumulation.
C16_ImplicitDoneAtEOF ==
    (status # "running" /\ ~readFails /\ NoTerminalMarker(input))
      => /\ status = "done"
         /\ pos = Len(input)
         /\ result = cleanResponse(Concat(ContentOf(input)))

C16_Witness ==
    /\ status = "done"
    /\ ~readFails
    /\ NoTerminalMarker(input)
    /\ Len(input) = 3
    /\ Len(callbacks) = 2
    /\ result = Concat(callbacks)
    /\ result # <<>>

\* the lines of a stream that are neither padding nor malformed
WithoutSkipped(lines) == SelectSeq(lines, LAMBDA l : ~Skipped(l))

\* C17: lines that do not begin with the prefix and data lines whose payload
\* does not parse have no effect: the callbacks made, the text returned and
\* the error are those of the same stream with every such line taken out.
C17_SkippedLinesHaveNoEffect ==
    /\ callbacks = ProcessStream(WithoutSkipped(SubSeq(input, 1, pos)),
                                 FALSE, <<>>, <<>>).callbacks
    /\ status # "running"
         => LET bare == ProcessStream(WithoutSkipped(input), readFails, <<>>, <<>>)
            IN  /\ callbacks = bare.callbacks
                /\ result = bare.result
                /\ status = bare.status

C17_Witness ==
    /\ status = "done"
    /\ pos = 3
    /\ input[1] = <<Junk>>
    /\ input[2] = Chunk(Completion, <<"H", "i">>, FALSE)
    /\ input[3] = <<Prefix, Junk>>
    /\ callbacks = << <<"H", "i">> >>
    /\ result = <<"H", "i">>

\* strings.TrimSpace(line), over the tokens of a line
TrimmedLine(line) == TrimRightBlank(TrimLeftBlank(line))

TrimmedLines(lines) == [i \in 1..Len(lines) |-> TrimmedLine(lines[i])]

\* C18: every line is trimmed before the prefix test and the comparison with
\* the sentinel, so a stream is decoded exactly as the stream of its trimmed
\* lines: same callbacks, same text, same error.
C18_LinesTrimmed ==
    status # "running"
      => LET trimmed == ProcessStream(TrimmedLines(input), readFails, <<>>, <<>>)
         IN  /\ callbacks = trimmed.callbacks
             /\ result = trimmed.result
             /\ status = trimmed.status

\* C19: the text cleanResponse returns never holds more than 3 newline
\* characters in a row.
C19_AtMostThreeNewlines ==
    status \in {"cleaned", "cleaned2"}
      => \A i \in 1..(Len(result) - 3) :
            ~(\A j \in i..(i + 3) : result[j] = NL)

C19_Witness ==
    /\ status = "cleaned"
    /\ response = <<"a", CR, CR, NL, NL, "a">>
    /\ result = <<"a", NL, NL, NL, "a">>

\* C20: cleanResponse is idempotent: applied to the text it returned it
\* returns that text unchanged.
C20_CleanIdempotent ==
    /\ status = "cleaned" => result = cleanResponse(response)
    /\ status = "cleaned2"
         => /\ callbacks = <<cleanResponse(response)>>
            /\ result = callbacks[1]

C20_Witness ==
    /\ status = "cleaned2"
    /\ response = <<CR, BT, BT, BT, "a", SP>>
    /\ result = <<BT, BT, BT, "a", NL, BT, BT, BT>>
    /\ callbacks = <<result>>

\* the matches of the code block pattern in t from i on, in order
RECURSIVE BlockSeq(_, _)
BlockSeq(t, i) ==
    LET m == FindBlock(t, i)
    IN  IF m.start = 0 THEN <<>> ELSE <<m>> \o BlockSeq(t, m.stop + 1)

\* the display width of the widest of the lines ls
WidestLine(ls) == MaxOf({0} \cup {DisplayWidth(ls[k]) : k \in 1..Len(ls)})

Clamp(w, lo, hi) == IF w < lo THEN lo ELSE IF w > hi THEN hi ELSE w

\* the interior width asked of the box of a body: the display width of its
\* widest line, kept within the interior of the narrowest and widest box
InteriorWidth(code) ==
    Clamp(WidestLine(Split(code, NL)), MinBorderWidth - 4, MaxBorderWidth - 4)

\* the content rows of a box: all its rows but the two borders
ContentRowsOf(b) == SubSeq(BoxRows(b), 2, Len(BoxRows(b)) - 1)

\* C21: the interior of a code box is as wide as the widest body line is on
\* the display, clamped to the configured range, and every content row,
\* padded or truncated, fills exactly that display width between the two
\* side borders (two columns each).
C21_InteriorByDisplayWidth ==
    \A n \in 1..Len(boxes) :
        LET m == BlockSeq(doc, 1)[n]
            rows == ContentRowsOf(boxes[n])
        IN  /\ Len(rows) = Len(Split(m.code, NL))
            /\ \A r \in 1..Len(rows) :
                  DisplayWidth(rows[r]) - 4 = InteriorWidth(m.code)

AllWhitespace(t) == \A i \in 1..Len(t) : IsSpace(t[i])

\* C22: a fenced block whose body is empty or all white space is rendered
\* as nothing: no top border, no content row, no bottom border.
C22_EmptyBlockNoBox ==
    \A n \in 1..Len(boxes) :
        AllWhitespace(BlockSeq(doc, 1)[n].code) => boxes[n] = <<>>

\* b occurs in t as a run of consecutive runes
OccursIn(b, t) ==
    \E i \in 1..(Len(t) - Len(b) + 1) : SubSeq(t, i, i + Len(b) - 1) = b

\* C23: the inline pass (bold, italic, inline code, headers) leaves the
\* interior of every rendered code block as it was: each content row
\* produced by the code block pass is found unchanged in the text
\* RenderMarkdown returns.
C23_InlinePassSparesInterior ==
    rpc = "done"
      => \A n \in 1..Len(boxes) :
            \A r \in 1..Len(ContentRowsOf(boxes[n])) :
                OccursIn(ContentRowsOf(boxes[n])[r], rendered)

\* C24: in the box of a highlighted block the escape sequences of a line
\* are left out of the width and padding computation (the row is as wide as
\* the box without counting them) and are kept in what is emitted (the
\* highlighted line is found in its content row).
C24_AnsiKeptButNotCounted ==
    \A n \in 1..Len(boxes) :
        LET m == BlockSeq(doc, 1)[n]
            rows == ContentRowsOf(boxes[n])
            lines == Split(highlightCode(m.code, m.lang), NL)
            contentWidth == BorderWidth(MaxByteLen(Split(m.code, NL))) - 4
        IN  m.lang # <<>>
              => \A r \in 1..Len(lines) :
                    ByteLen(stripAnsiCodes(lines[r])) <= contentWidth
                      => /\ r <= Len(rows)
                         /\ ByteLen(stripAnsiCodes(rows[r]))
                              = ByteLen(<<VT, SP, SP, VT>>) + contentWidth
                         /\ OccursIn(lines[r], rows[r])

C26_SpinnerStateSynchronized ==
    /\ [](pc \in {"clear1", "clear2", "clear3", "clear4"}
            => animPc \in {"none", "exited"})
    /\ [][active' # active
            => (mu = "free" /\ animPc \notin {"save", "move", "print", "restore"})]_vars
    /\ [][lastLen' # lastLen
            => (mu = "r" /\ pc \notin {"clear1", "clear2", "clear3", "clear4"})]_vars

C26_Witness ==
    /\ pc = "clear3"
    /\ lastLen = SpinnerLen
    /\ animPc = "exited"
    /\ ~active
    /\ corner # "blank"

\* a repaint whose two writes were made with the cursor where the printer
\* left it
Undisturbed(f) == f.printAt = "main" /\ f.eraseAt \in {"main", "none"}

\* C27: after every repaint the terminal shows exactly the content of that
\* repaint, the rendering of the whole buffer, with nothing left of an
\* earlier frame, whatever the line count of the frame before it (0 for a
\* frame of one line without a newline).
C27_NoResidue ==
    \A n \in 1..Len(frames) :
        (\A k \in 1..n : Undisturbed(frames[k]))
          => TerminalShows(SubSeq(frames, 1, n)) = frames[n].content

\* C28: every call of Stop returns in the end, whatever the interleaving of
\* the calls of Start and Stop with the ticks of the animate goroutine; a
\* Stop on a spinner that is not active finds the mutex free and returns
\* in its first step, with nothing written to the terminal.
C28_StopReturns ==
    /\ (pc = "stopping") ~> (pc = "returned")
    /\ []((pc = "stopping" /\ ~active) => mu = "free")
    /\ [][(pc = "stopping" /\ ~active /\ pc' # pc)
            => (pc' = "returned" /\ cursor' = cursor /\ saved' = saved
                /\ corner' = corner)]_vars

C28_Witness ==
    /\ pc = "returned"
    /\ cancelled
    /\ animPc = "exited"
    /\ frameIndex = 0
    /\ lastLen = SpinnerLen
    /\ wg = 0

\* the animate goroutine has been started and has not returned
AnimateLive == animPc \notin {"none", "exited"}

\* C29: between the calls of Start and Stop, active is true exactly when
\* one animate goroutine is live; a Start after a completed Stop leaves one
\* live goroutine.
C29_ActiveIffAnimateLive ==
    pc = "caller"
      => /\ active <=> AnimateLive
         /\ wg = IF active THEN 1 ELSE 0

\* ------------------------------------------------ ai.Client.cleanResponse
\* strings.ReplaceAll(text, "\r\n", "\n")
RECURSIVE ReplaceCrLf(_, _)
ReplaceCrLf(t, i) ==
    IF i > Len(t) THEN <<>>
    ELSE IF t[i] = CR /\ i + 1 <= Len(t) /\ t[i + 1] = NL
         THEN <<NL>> \o ReplaceCrLf(t, i + 2)
         ELSE <<t[i]>> \o ReplaceCrLf(t, i + 1)

\* strings.ReplaceAll(cleaned, "\r", "\n")
ReplaceCr(t) == [i \in 1..Len(t) |-> IF t[i] = CR THEN NL ELSE t[i]]

FourNewlinesAt(t, i) ==
    i + 3 <= Len(t) /\ \A j \in i..(i + 3) : t[j] = NL

\* strings.ReplaceAll(cleaned, "\n\n\n\n", "\n\n\n")
RECURSIVE ReplaceFourNewlines(_, _)
ReplaceFourNewlines(t, i) ==
    IF i > Len(t) THEN <<>>
    ELSE IF FourNewlinesAt(t, i)
         THEN <<NL, NL, NL>> \o ReplaceFourNewlines(t, i + 4)
         ELSE <<t[i]>> \o ReplaceFourNewlines(t, i + 1)

\* for strings.Contains(cleaned, "\n\n\n\n") { ... }
RECURSIVE CollapseNewlines(_)
CollapseNewlines(t) ==
    IF \E i \in 1..Len(t) : FourNewlinesAt(t, i)
    THEN CollapseNewlines(ReplaceFourNewlines(t, 1))
    ELSE t

\* the finalizer built on the strings package
cleanResponseLib(text) ==
    IF text = <<>> THEN <<>>
    ELSE LET cleaned == TrimSpace(ReplaceCr(ReplaceCrLf(text, 1)))
         IN  CollapseNewlines(IF FenceMarkers(cleaned) % 2 = 1
                              THEN cleaned \o <<NL, BT, BT, BT>>
                              ELSE cleaned)

\* C30: the two finalizers agree: the text stream.Processor.cleanResponse
\* returns is the text the finalizer built on the strings package returns
\* for the same input.
C30_FinalizersAgree ==
    status = "cleaned" => result = cleanResponseLib(response)

====
